---------------------------- MODULE Spec2Model ----------------------------
(***************************************************************************)
(* A model of the two cores of the migration proxy:                        *)
(*                                                                         *)
(*   - the client relay (ClientConnector: run, listenForRequests,          *)
(*     listenForResponses), checked under RelaySpec / FairRelaySpec;       *)
(*   - the control channel (Update, Send, CommunicationHandler), checked   *)
(*     under Spec (Send and CommunicationHandler end to end, the stream a  *)
(*     sequence of frames), SendSpec / FairSendSpec (Send alone),          *)
(*     BackoffSpec (the delays of one retry loop), CodecSpec (Serialize    *)
(*     and the decoding, byte by byte) and FramingSpec                     *)
(*     (CommunicationHandler on a stream of bytes).                        *)
(*                                                                         *)
(* All parts share one set of variables; each specification leaves the     *)
(* other parts' variables at their initial value.                          *)
(***************************************************************************)
EXTENDS Integers, Sequences, FiniteSets, TLC

(***************************************************************************)
(* Bounds of the model.                                                    *)
(***************************************************************************)
\* number of frames the client sends in one session
MaxFrames == 3
\* number of payloads the response channel's owner sends in one session
MaxResponses == 2
\* capacity of the request channel handed to NewClientConnector
ReqChanCap == 1
\* number of calls of Send in one run
MaxSends == 2
\* the number of failed attempts up to which the model counts b.attempt
AttemptCap == 1
\* the same number where the delays of one goroutine are followed (BackoffSpec)
BackoffAttempts == 8
\* number of frames in the byte stream CommunicationHandler reads (FramingSpec)
MaxMsgs == 2

(***************************************************************************)
(* The relay's state.                                                      *)
(***************************************************************************)
VARIABLES
    runPc,            \* position of ClientConnector.run
    reqPc,            \* position of the goroutine of listenForRequests
    reqErr,           \* err of listenForRequests, as the last read set it
    respPc,           \* position of the goroutine of listenForResponses
    ctxDone,          \* clientHandlerContext is cancelled
    waitGroup,        \* counter of cc.waitGroup
    clientIn,         \* frames the client has sent and the relay has not read
    frame,            \* the frame the request loop holds (<<>>: none)
    requestChannel,   \* buffer of cc.requestChannel
    reqChanCloses,    \* number of close(cc.requestChannel) executed
    pushed,           \* history: frames sent on cc.requestChannel, in order
    readLog,          \* history: frames readAndParseFrame returned, in order
    connReads,        \* history: number of reads of cc.connection started
    respSent,         \* number of payloads the owner sent on responseChannel
    respChanClosed,   \* cc.responseChannel has been closed by its owner
    response,         \* the payload the response loop holds (<<>>: none)
    connWrites,       \* history: payloads handed to cc.connection, in order
    written,          \* history: payloads cc.connection accepted, in order
    connCloses        \* number of cc.connection.Close() executed

(***************************************************************************)
(* The control channel's state.                                            *)
(***************************************************************************)
VARIABLES
    senders,          \* the goroutines of Send, in the order of the calls
    toMig,            \* the stream Send writes and CommunicationHandler reads
    dstUp,            \* Send's dst accepts a write at present
    srcEOF,           \* the peer has closed the stream CommunicationHandler reads
    chPc,             \* position of CommunicationHandler
    chResp,           \* resp: the acknowledgment it is about to write
    handled,          \* history: the handler's invocations and results
    ackWrites,        \* history: the calls of dst.Write(resp) and their outcome
    exitCode,         \* status of os.Exit (0: not called)
    srcCloses,        \* number of src.Close() executed
    attemptCap        \* the count at which b.attempt is no longer counted up

(***************************************************************************)
(* One Update taken through Serialize and back (CodecSpec).                *)
(***************************************************************************)
VARIABLES
    codecU,           \* the Update Serialize is called on
    withLen,          \* the bytes Serialize returned (<<>>: not yet called)
    decodeErr,        \* err of json.Unmarshal ("unset": not yet called)
    decodedUpdate     \* update, as json.Unmarshal filled it

codecVars == <<codecU, withLen, decodeErr, decodedUpdate>>

(***************************************************************************)
(* The stream CommunicationHandler reads, byte by byte (FramingSpec).      *)
(***************************************************************************)
VARIABLES
    inStream,         \* history: the frames the peer wrote, in order
    srcBytes,         \* the bytes of them that src.Read has not returned yet
    updateLen         \* updateLen of the pass under way (0: not yet read)

byteVars == <<inStream, srcBytes, updateLen>>

relayVars == <<runPc, reqPc, reqErr, readLog, respPc, ctxDone, waitGroup, clientIn, frame,
               requestChannel, reqChanCloses, pushed, connReads, respSent,
               respChanClosed, response, connWrites, written, connCloses>>

chanVars == <<senders, toMig, dstUp, srcEOF, chPc, chResp, handled,
              ackWrites, exitCode, srcCloses>>

ctlVars == <<chanVars, attemptCap, codecVars, byteVars>>

\* what the actions of Send and CommunicationHandler leave alone where the
\* stream is a sequence of frames
offChannel == <<relayVars, attemptCap, codecVars, byteVars>>

\* what they leave alone where the stream is a sequence of bytes
offBytes == <<relayVars, attemptCap, codecVars>>

\* what the actions of CodecSpec leave alone
offCodec == <<relayVars, chanVars, attemptCap, byteVars>>


vars == <<relayVars, ctlVars>>

\* Frame.Direction: 0 is client to backend, anything else is not
Directions == {0, 1}

\* a frame as readAndParseFrame returns it: its place in the stream and its direction
Frames == [seq : 1..(MaxFrames + 1), Direction : Directions]

\* the response payloads: a 5-byte one (header up to the opcode) and a 2-byte one
Payloads == { <<0, 0, 0, 0, 8>>, <<1, 2>> }

NoFrame == [seq |-> 0, Direction |-> 0]
NoResponse == <<>>

(***************************************************************************)
(* readAndParseFrame(connection, frameHeader, ctx): the outcomes of one    *)
(* call, given the unread part of the client's stream and whether the      *)
(* context is cancelled.  The cancellation signal is checked before the    *)
(* header read: when it has fired the call returns ShutdownErr and reads   *)
(* nothing.  Otherwise the read is started and yields the next complete    *)
(* frame, end-of-stream when the client has sent nothing more, or a read   *)
(* failure.                                                                *)
(***************************************************************************)
readAndParseFrame(stream, cancelled) ==
    IF cancelled
    THEN { [err |-> "ShutdownErr", read |-> FALSE, frame |-> NoFrame] }
    ELSE (IF stream # <<>>
          THEN { [err |-> "nil", read |-> TRUE, frame |-> Head(stream)] }
          ELSE { [err |-> "EOF", read |-> TRUE, frame |-> NoFrame] })
         \cup { [err |-> "ioerr", read |-> TRUE, frame |-> NoFrame] }

\* writeToConnection(connection, message): what the connection holds afterwards
writeToConnection(conn, message, ok) ==
    IF ok THEN Append(conn, message) ELSE conn

\* response[4] in the arguments of log.Tracef: indexing a shorter slice panics
IndexInRange(payload, i) == i + 1 <= Len(payload)

RelayInit ==
    /\ runPc = "start"
    /\ reqPc = "none"
    /\ reqErr = "nil"
    /\ readLog = <<>>
    /\ respPc = "none"
    /\ ctxDone = FALSE
    /\ waitGroup = 0
    /\ clientIn \in { s \in [1..MaxFrames -> Frames] :
                         \A i \in 1..MaxFrames : s[i].seq = i }
    /\ frame = NoFrame
    /\ requestChannel = <<>>
    /\ reqChanCloses = 0
    /\ pushed = <<>>
    /\ connReads = 0
    /\ respSent = 0
    /\ respChanClosed = FALSE
    /\ response = NoResponse
    /\ connWrites = <<>>
    /\ written = <<>>
    /\ connCloses = 0

\* a faulty variant of UnexpectedDirection: no direction is refused
UnexpectedDirectionNever(f) == FALSE

\* frame.Direction != 0: the frame is not from client to db and is skipped
UnexpectedDirection(f) == f.Direction # 0

\* a panic of either goroutine ends the process
RelayAlive == respPc # "panic"

(***************************************************************************)
(* ClientConnector.run: listenForRequests, then listenForResponses.  Each  *)
(* adds one to the wait group and starts its goroutine.                    *)
(***************************************************************************)
RunListenForRequests ==
    /\ runPc = "start"
    /\ waitGroup' = waitGroup + 1
    /\ reqPc' = "read"
    /\ runPc' = "mid"
    /\ UNCHANGED <<reqErr, readLog, respPc, ctxDone, clientIn, frame, requestChannel,
                   reqChanCloses, pushed, connReads, respSent, respChanClosed,
                   response, connWrites, written, connCloses>>
    /\ UNCHANGED ctlVars

RunListenForResponses ==
    /\ runPc = "mid"
    /\ RelayAlive
    /\ waitGroup' = waitGroup + 1
    /\ respPc' = "start"
    /\ runPc' = "done"
    /\ UNCHANGED <<reqPc, reqErr, readLog, ctxDone, clientIn, frame, requestChannel,
                   reqChanCloses, pushed, connReads, respSent, respChanClosed,
                   response, connWrites, written, connCloses>>
    /\ UNCHANGED ctlVars

(***************************************************************************)
(* The goroutine of listenForRequests.                                     *)
(***************************************************************************)
\* a faulty variant of ReqDeferred: the channel is left open
ReqDeferredNoClose ==
    /\ reqChanCloses' = reqChanCloses
    /\ waitGroup' = waitGroup - 1
    /\ reqPc' = "done"

\* the deferred calls of the goroutine: close(cc.requestChannel), waitGroup.Done()
ReqDeferred ==
    /\ reqChanCloses' = reqChanCloses + 1
    /\ waitGroup' = waitGroup - 1
    /\ reqPc' = "done"

\* one pass of the loop up to the send on the channel
ReqRead ==
    /\ reqPc = "read"
    /\ RelayAlive
    /\ \E r \in readAndParseFrame(clientIn, ctxDone) :
          /\ connReads' = connReads + (IF r.read THEN 1 ELSE 0)
          /\ reqErr' = r.err
          /\ readLog' = IF r.err = "nil" THEN Append(readLog, r.frame) ELSE readLog
          /\ IF r.err = "ShutdownErr"
             THEN /\ ReqDeferred
                  /\ UNCHANGED <<ctxDone, clientIn, frame>>
             ELSE IF r.err # "nil"
             THEN /\ ctxDone' = TRUE
                  /\ ReqDeferred
                  /\ UNCHANGED <<clientIn, frame>>
             ELSE IF UnexpectedDirection(r.frame)
             THEN /\ clientIn' = Tail(clientIn)
                  /\ UNCHANGED <<reqPc, ctxDone, frame, reqChanCloses, waitGroup>>
             ELSE /\ clientIn' = Tail(clientIn)
                  /\ frame' = r.frame
                  /\ reqPc' = "push"
                  /\ UNCHANGED <<ctxDone, reqChanCloses, waitGroup>>
    /\ UNCHANGED <<runPc, respPc, requestChannel, pushed, respSent,
                   respChanClosed, response, connWrites, written, connCloses>>
    /\ UNCHANGED ctlVars

\* cc.requestChannel <- frame: blocks while the channel has no room
ReqPush ==
    /\ reqPc = "push"
    /\ RelayAlive
    /\ Len(requestChannel) < ReqChanCap
    /\ requestChannel' = Append(requestChannel, frame)
    /\ pushed' = Append(pushed, frame)
    /\ frame' = NoFrame
    /\ reqPc' = "read"
    /\ UNCHANGED <<runPc, reqErr, readLog, respPc, ctxDone, waitGroup, clientIn, reqChanCloses,
                   connReads, respSent, respChanClosed, response, connWrites,
                   written, connCloses>>
    /\ UNCHANGED ctlVars

(***************************************************************************)
(* The goroutine of listenForResponses.                                    *)
(***************************************************************************)
\* cc.waitGroup.Done() is the goroutine's first statement
RespStart ==
    /\ respPc = "start"
    /\ RelayAlive
    /\ waitGroup' = waitGroup - 1
    /\ respPc' = "recv"
    /\ UNCHANGED <<runPc, reqPc, reqErr, readLog, ctxDone, clientIn, frame, requestChannel,
                   reqChanCloses, pushed, connReads, respSent, respChanClosed,
                   response, connWrites, written, connCloses>>
    /\ UNCHANGED ctlVars

\* response, ok := <-cc.responseChannel with ok, then the first log.Tracef
RespRecv ==
    /\ respPc = "recv"
    /\ RelayAlive
    /\ ~respChanClosed
    /\ respSent < MaxResponses
    /\ \E p \in Payloads :
          /\ respSent' = respSent + 1
          /\ IF IndexInRange(p, 4)
             THEN /\ response' = p
                  /\ respPc' = "write"
             ELSE /\ response' = NoResponse
                  /\ respPc' = "panic"
    /\ UNCHANGED <<runPc, reqPc, reqErr, readLog, ctxDone, waitGroup, clientIn, frame,
                   requestChannel, reqChanCloses, pushed, connReads,
                   respChanClosed, connWrites, written, connCloses>>
    /\ UNCHANGED ctlVars

\* response, ok := <-cc.responseChannel with !ok
RespRecvClosed ==
    /\ respPc = "recv"
    /\ RelayAlive
    /\ respChanClosed
    /\ respPc' = "done"
    /\ UNCHANGED <<runPc, reqPc, reqErr, readLog, ctxDone, waitGroup, clientIn, frame,
                   requestChannel, reqChanCloses, pushed, connReads, respSent,
                   respChanClosed, response, connWrites, written, connCloses>>
    /\ UNCHANGED ctlVars

\* err = writeToConnection(cc.connection, response); break on an error
RespWrite ==
    /\ respPc = "write"
    /\ RelayAlive
    /\ \E ok \in BOOLEAN :
          /\ connWrites' = Append(connWrites, response)
          /\ written' = writeToConnection(written, response, ok)
          /\ respPc' = IF ok THEN "recv" ELSE "done"
    /\ response' = NoResponse
    /\ UNCHANGED <<runPc, reqPc, reqErr, readLog, ctxDone, waitGroup, clientIn, frame,
                   requestChannel, reqChanCloses, pushed, connReads, respSent,
                   respChanClosed, connCloses>>
    /\ UNCHANGED ctlVars

(***************************************************************************)
(* The relay's environment: the consumer of the request channel, the owner *)
(* of the response channel, and the session's other holders of the cancel  *)
(* function.                                                               *)
(***************************************************************************)
ConsumeRequest ==
    /\ requestChannel # <<>>
    /\ requestChannel' = Tail(requestChannel)
    /\ UNCHANGED <<runPc, reqPc, reqErr, readLog, respPc, ctxDone, waitGroup, clientIn, frame,
                   reqChanCloses, pushed, connReads, respSent, respChanClosed,
                   response, connWrites, written, connCloses>>
    /\ UNCHANGED ctlVars

CloseResponseChannel ==
    /\ ~respChanClosed
    /\ respChanClosed' = TRUE
    /\ UNCHANGED <<runPc, reqPc, reqErr, readLog, respPc, ctxDone, waitGroup, clientIn, frame,
                   requestChannel, reqChanCloses, pushed, connReads, respSent,
                   response, connWrites, written, connCloses>>
    /\ UNCHANGED ctlVars

CancelSession ==
    /\ ~ctxDone
    /\ ctxDone' = TRUE
    /\ UNCHANGED <<runPc, reqPc, reqErr, readLog, respPc, waitGroup, clientIn, frame,
                   requestChannel, reqChanCloses, pushed, connReads, respSent,
                   respChanClosed, response, connWrites, written, connCloses>>
    /\ UNCHANGED ctlVars

RelayNext ==
    \/ RunListenForRequests
    \/ RunListenForResponses
    \/ ReqRead
    \/ ReqPush
    \/ RespStart
    \/ RespRecv
    \/ RespRecvClosed
    \/ RespWrite
    \/ ConsumeRequest
    \/ CloseResponseChannel
    \/ CancelSession



(***************************************************************************)
(* Update and its wire format.                                             *)
(***************************************************************************)
\* the UpdateType enum
TableUpdate == 0
TableRestart == 1
Start == 2
Complete == 3
Shutdown == 4
Success == 5
Failure == 6
UpdateTypes == TableUpdate..Failure

\* a Go string is the sequence of its bytes

\* an error value: nil, or an error with the text Error() returns
NilError == [isNil |-> TRUE, text |-> <<>>]
ErrorsNew(text) == [isNil |-> FALSE, text |-> text]

\* a []byte: nil, or a sequence of bytes
NilData == [isNil |-> TRUE, bytes |-> <<>>]
Bytes(b) == [isNil |-> FALSE, bytes |-> b]

\* encoding/json writes a []byte as a base64 string (sextets, 64 is the padding)
\* and a nil []byte as null
RECURSIVE Base64Encode(_)
Base64Encode(b) ==
    IF Len(b) = 0 THEN <<>>
    ELSE IF Len(b) = 1
    THEN << b[1] \div 4, (b[1] % 4) * 16, 64, 64 >>
    ELSE IF Len(b) = 2
    THEN << b[1] \div 4, (b[1] % 4) * 16 + b[2] \div 16, (b[2] % 16) * 4, 64 >>
    ELSE << b[1] \div 4, (b[1] % 4) * 16 + b[2] \div 16,
            (b[2] % 16) * 4 + b[3] \div 64, b[3] % 64 >>
         \o Base64Encode(SubSeq(b, 4, Len(b)))

RECURSIVE Base64Decode(_)
Base64Decode(c) ==
    IF Len(c) = 0 THEN <<>>
    ELSE LET b1 == c[1] * 4 + c[2] \div 16
             b2 == (c[2] % 16) * 16 + c[3] \div 4
             b3 == (c[3] % 4) * 64 + c[4]
         IN  IF c[3] = 64 THEN << b1 >>
             ELSE IF c[4] = 64 THEN << b1, b2 >>
             ELSE << b1, b2, b3 >> \o Base64Decode(SubSeq(c, 5, Len(c)))

\* the digits encoding/json writes a string's escapes with
HexDigit(n) == IF n < 10 THEN 48 + n ELSE 87 + n
HexVal(c) == IF c >= 97 THEN c - 87 ELSE IF c >= 65 THEN c - 55 ELSE c - 48

\* the bytes s begins with form one character: an ASCII byte, or a lead byte
\* and its continuation byte (the strings of the model hold no longer
\* sequences); any other byte is no valid UTF-8
IsAscii(c) == c < 128
IsTwoByte(s) ==
    /\ Len(s) >= 2
    /\ s[1] >= 194 /\ s[1] <= 223
    /\ s[2] >= 128 /\ s[2] <= 191

\* the text encoding/json writes between the quotes for a string, with
\* escapeHTML: the quote and the backslash are escaped, control characters
\* and <, >, & are written as \u00XX (newline, return and tab as \n, \r,
\* \t), and a byte that is no valid UTF-8 is written as \ufffd
\* a faulty variant of Quote: the bytes are written as they are
QuoteRaw(s) == s

RECURSIVE Quote(_)
Quote(s) ==
    IF s = <<>> THEN <<>>
    ELSE LET c == s[1]
         IN  IF c = 34 \/ c = 92 THEN << 92, c >> \o Quote(Tail(s))
             ELSE IF c = 10 THEN << 92, 110 >> \o Quote(Tail(s))
             ELSE IF c = 13 THEN << 92, 114 >> \o Quote(Tail(s))
             ELSE IF c = 9 THEN << 92, 116 >> \o Quote(Tail(s))
             ELSE IF c < 32 \/ c \in {38, 60, 62}
             THEN << 92, 117, 48, 48, HexDigit(c \div 16), HexDigit(c % 16) >>
                  \o Quote(Tail(s))
             ELSE IF IsAscii(c) THEN << c >> \o Quote(Tail(s))
             ELSE IF IsTwoByte(s) THEN << c, s[2] >> \o Quote(Tail(Tail(s)))
             ELSE << 92, 117, 102, 102, 102, 100 >> \o Quote(Tail(s))

\* the UTF-8 bytes of a code point of the basic plane
Utf8(cp) ==
    IF cp < 128 THEN << cp >>
    ELSE IF cp < 2048 THEN << 192 + (cp \div 64), 128 + (cp % 64) >>
    ELSE << 224 + (cp \div 4096), 128 + ((cp \div 64) % 64), 128 + (cp % 64) >>

\* the string encoding/json reads from the text between the quotes
RECURSIVE Unquote(_)
Unquote(t) ==
    IF t = <<>> THEN <<>>
    ELSE IF t[1] # 92 THEN << t[1] >> \o Unquote(Tail(t))
    ELSE IF t[2] = 117
    THEN Utf8(((HexVal(t[3]) * 16 + HexVal(t[4])) * 16 + HexVal(t[5])) * 16
              + HexVal(t[6]))
         \o Unquote(SubSeq(t, 7, Len(t)))
    ELSE << (IF t[2] = 110 THEN 10 ELSE IF t[2] = 114 THEN 13
             ELSE IF t[2] = 116 THEN 9 ELSE t[2]) >>
         \o Unquote(SubSeq(t, 3, Len(t)))

\* json.Marshal(u): the object's four members, each as its JSON text (a
\* string without its quotes, a []byte as its base64 sextets)
Marshal(u) ==
    [ ID    |-> Quote(u.ID),
      Type  |-> u.Type,
      Data  |-> IF u.Data.isNil THEN [null |-> TRUE, b64 |-> <<>>]
                ELSE [null |-> FALSE, b64 |-> Base64Encode(u.Data.bytes)],
      Error |-> Quote(u.Error) ]

\* len(marshaled): the 36 bytes of {"ID":"","Type":,"Data":,"Error":""} and
\* the members' texts
JsonLen(j) ==
    36 + Len(j.ID) + Len(ToString(j.Type))
       + (IF j.Data.null THEN 4 ELSE 2 + Len(j.Data.b64)) + Len(j.Error)

\* json.Unmarshal(buf, &update), once buf is read as an object: the members'
\* values from their texts
Unmarshal(j) ==
    [ ID    |-> Unquote(j.ID),
      Type  |-> j.Type,
      Data  |-> IF j.Data.null THEN NilData ELSE Bytes(Base64Decode(j.Data.b64)),
      Error |-> Unquote(j.Error) ]

\* the base64 alphabet
B64Char(x) ==
    IF x < 26 THEN 65 + x
    ELSE IF x < 52 THEN 71 + x
    ELSE IF x < 62 THEN x - 4
    ELSE IF x = 62 THEN 43
    ELSE IF x = 63 THEN 47
    ELSE 61

B64Val(c) ==
    IF c = 61 THEN 64
    ELSE IF c = 43 THEN 62
    ELSE IF c = 47 THEN 63
    ELSE IF c <= 57 THEN c + 4
    ELSE IF c <= 90 THEN c - 65
    ELSE c - 71

\* strconv's decimal digits of a number that is not negative
RECURSIVE Itoa(_)
Itoa(n) == IF n < 10 THEN << 48 + n >> ELSE Itoa(n \div 10) \o << 48 + (n % 10) >>

RECURSIVE Atoi(_)
Atoi(d) ==
    IF d = <<>> THEN 0
    ELSE Atoi(SubSeq(d, 1, Len(d) - 1)) * 10 + (d[Len(d)] - 48)

\* the fixed parts of the text json.Marshal writes for an Update:
\* {"ID":"   ","Type":   ,"Data":   null   ,"Error":"   "}
LitID == << 123, 34, 73, 68, 34, 58, 34 >>
LitType == << 34, 44, 34, 84, 121, 112, 101, 34, 58 >>
LitData == << 44, 34, 68, 97, 116, 97, 34, 58 >>
LitNull == << 110, 117, 108, 108 >>
LitError == << 44, 34, 69, 114, 114, 111, 114, 34, 58, 34 >>
LitEnd == << 34, 125 >>

\* marshaled: the bytes of the JSON text of the object
JsonText(j) ==
    LitID \o j.ID \o LitType \o Itoa(j.Type) \o LitData
      \o (IF j.Data.null THEN LitNull
          ELSE << 34 >> \o [i \in 1..Len(j.Data.b64) |-> B64Char(j.Data.b64[i])]
               \o << 34 >>)
      \o LitError \o j.Error \o LitEnd

StartsWith(b, p) == Len(b) >= Len(p) /\ SubSeq(b, 1, Len(p)) = p
Drop(b, n) == SubSeq(b, n + 1, Len(b))

\* the index of the quote that ends the string text that begins at b[i]
\* (0: there is none)
RECURSIVE StringEnd(_, _)
StringEnd(b, i) ==
    IF i > Len(b) THEN 0
    ELSE IF b[i] = 34 THEN i
    ELSE IF b[i] = 92 THEN StringEnd(b, i + 2)
    ELSE StringEnd(b, i + 1)

\* the number of digits that follow the first i bytes of b
RECURSIVE DigitsLen(_, _)
DigitsLen(b, i) ==
    IF i < Len(b) /\ b[i + 1] >= 48 /\ b[i + 1] <= 57
    THEN DigitsLen(b, i + 1)
    ELSE i

\* what a stream holds: the frames Serialize makes, and runs of bytes that are
\* no whole frame (what a failed write or a short read leaves behind)
NoJson == [ID |-> <<>>, Type |-> 0, Data |-> [null |-> TRUE, b64 |-> <<>>], Error |-> <<>>]
Junk == [kind |-> "junk", len |-> 0, body |-> NoJson]

\* Update.Serialize: the 4-byte big-endian length of the body, then the body
\* (uint32(len(marshaled)) is len(marshaled): the bodies are far shorter than 2^32)
Serialize(u) ==
    LET marshaled == Marshal(u)
    IN  [kind |-> "frame", len |-> JsonLen(marshaled), body |-> marshaled]

\* json.Unmarshal(buf, &update) reads buf as an object: the members' texts
\* of a text that json.Marshal wrote for an Update, and an error for another
\* text (the texts of the model are such texts and pieces of them; the other
\* forms encoding/json reads, with blanks, members in another order or
\* unknown members, are not modelled)
ParseJson(buf) ==
    LET fail == [ok |-> FALSE, j |-> NoJson]
    IN  IF ~StartsWith(buf, LitID) THEN fail ELSE
        LET r1 == Drop(buf, Len(LitID))
            e1 == StringEnd(r1, 1)
        IN  IF e1 = 0 THEN fail ELSE
        LET r2 == Drop(r1, e1 - 1)
        IN  IF ~StartsWith(r2, LitType) THEN fail ELSE
        LET r3 == Drop(r2, Len(LitType))
            n == DigitsLen(r3, 0)
        IN  IF n = 0 THEN fail ELSE
        LET r4 == Drop(r3, n)
        IN  IF ~StartsWith(r4, LitData) THEN fail ELSE
        LET r5 == Drop(r4, Len(LitData))
            isNull == StartsWith(r5, LitNull)
            e5 == IF isNull \/ r5 = <<>> \/ r5[1] # 34 THEN 0 ELSE StringEnd(r5, 2)
        IN  IF ~isNull /\ (e5 = 0 \/ (e5 - 2) % 4 # 0) THEN fail ELSE
        LET b64 == IF isNull THEN <<>> ELSE SubSeq(r5, 2, e5 - 1)
            r6 == IF isNull THEN Drop(r5, Len(LitNull)) ELSE Drop(r5, e5)
        IN  IF ~StartsWith(r6, LitError) THEN fail ELSE
        LET r7 == Drop(r6, Len(LitError))
            e7 == StringEnd(r7, 1)
        IN  IF e7 = 0 \/ Drop(r7, e7 - 1) # LitEnd THEN fail ELSE
            [ ok |-> TRUE,
              j  |-> [ ID    |-> SubSeq(r1, 1, e1 - 1),
                       Type  |-> Atoi(SubSeq(r3, 1, n)),
                       Data  |-> [ null |-> isNull,
                                   b64  |-> [i \in 1..Len(b64) |-> B64Val(b64[i])] ],
                       Error |-> SubSeq(r7, 1, e7 - 1) ] ]

\* binary.BigEndian.PutUint32 and binary.BigEndian.Uint32 (the streams of the
\* model hold no byte above 127 where a length is read: the value is below 2^31)
PutUint32(n) ==
    << (n \div 16777216) % 256, (n \div 65536) % 256, (n \div 256) % 256, n % 256 >>
Uint32(b) == ((b[1] * 256 + b[2]) * 256 + b[3]) * 256 + b[4]

\* withLen: the bytes Serialize returns for a frame
Wire(f) == PutUint32(f.len) \o JsonText(f.body)

\* a faulty variant of SuccessResp: the response does not take over the ID
SuccessRespFreshId(u) ==
    Serialize([ID |-> <<>>, Type |-> Success, Data |-> NilData, Error |-> <<>>])

\* Update.Success
SuccessResp(u) ==
    Serialize([ID |-> u.ID, Type |-> Success, Data |-> NilData, Error |-> <<>>])

\* Update.Failure(err): err.Error() of a nil error is a nil dereference
FailurePanics(err) == err.isNil
FailureResp(u, err) ==
    Serialize([ID |-> u.ID, Type |-> Failure, Data |-> NilData, Error |-> err.text])

\* a faulty variant of WantsAck: a Failure is acknowledged
WantsAckUnlessSuccess(t) == t # Success

\* update.Type != Success && update.Type != Failure
WantsAck(t) == t # Success /\ t # Failure

(***************************************************************************)
(* github.com/jpillora/backoff as Send configures it, in milliseconds.     *)
(***************************************************************************)
BackoffMin == 200
BackoffMax == 10000
BackoffFactor == 2

\* the smaller of two numbers
MinOf(a, b) == IF a < b THEN a ELSE b

RECURSIVE Pow(_, _)
Pow(b, n) == IF n = 0 THEN 1 ELSE b * Pow(b, n - 1)

\* a faulty variant of ForAttempt: Max is not applied
ForAttemptUncapped(attempt) == BackoffMin * Pow(BackoffFactor, attempt)

\* Backoff.ForAttempt
ForAttempt(attempt) ==
    LET d == BackoffMin * Pow(BackoffFactor, attempt)
    IN  IF d > BackoffMax THEN BackoffMax ELSE d

(***************************************************************************)
(* One Update through Serialize and through the decoding of                *)
(* CommunicationHandler, with reads that return all the bytes asked for.   *)
(***************************************************************************)
\* var update Update
ZeroUpdate == [ID |-> <<>>, Type |-> 0, Data |-> NilData, Error |-> <<>>]

\* the strings of the Updates taken through the codec: the empty string, "a",
\* a quote and a backslash, < and a newline, e with an acute accent (two
\* bytes), and one byte that is no valid UTF-8
CodecStrings ==
    { <<>>, << 97 >>, << 34, 92 >>, << 60, 10 >>, << 195, 169 >>, << 255 >> }

\* their Data: nil, empty, and one to four bytes
CodecData ==
    { NilData, Bytes(<<>>), Bytes(<< 116 >>), Bytes(<< 0, 255 >>),
      Bytes(<< 1, 2, 3 >>), Bytes(<< 250, 251, 252, 253 >>) }

CodecInputs ==
    [ID : CodecStrings, Type : UpdateTypes, Data : CodecData, Error : CodecStrings]

\* no byte stream
BytesParked ==
    /\ inStream = <<>>
    /\ srcBytes = <<>>
    /\ updateLen = 0

CodecParked ==
    /\ codecU = ZeroUpdate
    /\ withLen = <<>>
    /\ decodeErr = "unset"
    /\ decodedUpdate = ZeroUpdate

CodecInit ==
    /\ codecU \in CodecInputs
    /\ withLen = <<>>
    /\ decodeErr = "unset"
    /\ decodedUpdate = ZeroUpdate

\* u.Serialize()
CodecSerialize ==
    /\ withLen = <<>>
    /\ withLen' = Wire(Serialize(codecU))
    /\ UNCHANGED <<codecU, decodeErr, decodedUpdate>>
    /\ UNCHANGED offCodec

\* one pass of CommunicationHandler up to json.Unmarshal: the four bytes of
\* the length, updateLen bytes of body, and the decoding into a zero Update
CodecDecode ==
    /\ withLen # <<>>
    /\ decodeErr = "unset"
    /\ LET buf == SubSeq(withLen, 5, 4 + Uint32(SubSeq(withLen, 1, 4)))
           parsed == ParseJson(buf)
       IN  /\ decodeErr' = IF parsed.ok THEN "nil" ELSE "error"
           /\ decodedUpdate' = IF parsed.ok THEN Unmarshal(parsed.j) ELSE ZeroUpdate
    /\ UNCHANGED <<codecU, withLen>>
    /\ UNCHANGED offCodec

CodecNext ==
    \/ CodecSerialize
    \/ CodecDecode

(***************************************************************************)
(* The connection between Send and CommunicationHandler.                   *)
(***************************************************************************)
\* the error of a write that failed ("EPIPE")
WriteError == ErrorsNew(<< 69, 80, 73, 80, 69 >>)

\* the outcomes of dst.Write(p): everything written and no error, or an error
\* after none or a part of the bytes
WriteOutcomes(up, closed) ==
    IF up /\ ~closed
    THEN { [err |-> NilError, n |-> "all"] }
    ELSE { [err |-> WriteError, n |-> "none"] }
         \cup (IF closed THEN {} ELSE { [err |-> WriteError, n |-> "part"] })

\* bytes that are no whole frame, joined to such bytes before them
AppendJunk(stream) ==
    IF stream # <<>> /\ stream[Len(stream)].kind = "junk"
    THEN stream
    ELSE Append(stream, Junk)

\* the stream after a write with outcome w
ConnWrite(stream, unit, w) ==
    IF w.n = "all" THEN Append(stream, unit)
    ELSE IF w.n = "part" THEN AppendJunk(stream)
    ELSE stream

\* the stream after a read took a part of its first unit: the rest is no frame
Spoil(stream) ==
    IF Len(stream) > 1 /\ stream[2].kind = "junk"
    THEN Tail(stream)
    ELSE << Junk >> \o Tail(stream)

\* the streams a pass that read bytes of no frame can leave: it took those
\* bytes alone, or with them a part of the frame behind them
AfterJunk(stream) ==
    { Tail(stream) } \cup (IF Len(stream) > 1 THEN { Spoil(Tail(stream)) } ELSE {})

\* the streams a pass with a short read can leave
AfterShort(stream) ==
    IF stream[1].kind = "frame" THEN { Spoil(stream) } ELSE AfterJunk(stream)

(***************************************************************************)
(* Send.                                                                   *)
(***************************************************************************)
\* the updates sent: a request with a payload and the two acknowledgments
SentUpdates ==
    { [Type |-> Start, Data |-> Bytes(<< 116 >>)],
      [Type |-> Success, Data |-> NilData],
      [Type |-> Failure, Data |-> NilData] }

\* the ID of the n-th update made: a digit in place of uuid.New().String()
NewID(n) == << 48 + n >>

\* New(updateType, data); id stands for uuid.New().String()
New(id, updateType, data) ==
    [ID |-> id, Type |-> updateType, Data |-> data, Error |-> <<>>]

\* faulty variants of SendLoopDone: the loop never returns, and the loop
\* returns after its first write whatever the write reported
SendLoopDoneNever(err) == FALSE
SendLoopDoneAlways(err) == TRUE

\* a faulty variant of SendLoopDone: the loop returns after a write that
\* reported an error and goes on after one that did not
SendLoopDoneOnError(err) == err # NilError

\* the loop of Send returns when the write reported no error
SendLoopDone(err) == err = NilError

\* b.Duration(): the delay for the present attempt; the attempt is then counted
NextAttempt(attempt) == IF attempt < attemptCap THEN attempt + 1 ELSE attempt

CtlInit ==
    /\ senders = <<>>
    /\ toMig = <<>>
    /\ dstUp \in BOOLEAN
    /\ srcEOF = FALSE
    /\ chPc = "read"
    /\ chResp = Junk
    /\ handled = <<>>
    /\ ackWrites = <<>>
    /\ exitCode = 0
    /\ srcCloses = 0

\* Send(update, dst) up to the go statement: the update is serialized once
Send ==
    /\ Len(senders) < MaxSends
    /\ \E s \in SentUpdates :
          LET update == New(NewID(Len(senders) + 1), s.Type, s.Data)
          IN  senders' = Append(senders,
                  [ update |-> update, marshaledUpdate |-> Serialize(update),
                    pc |-> "write", attempt |-> 0, slept |-> 0, delivered |-> 0 ])
    /\ UNCHANGED <<toMig, dstUp, srcEOF, chPc, chResp, handled,
                   ackWrites, exitCode, srcCloses>>
    /\ UNCHANGED offChannel

\* one pass of the goroutine's loop: dst.Write(marshaledUpdate), then return or
\* b.Duration() and the start of time.Sleep
SendWrite(i) ==
    /\ i \in DOMAIN senders
    /\ senders[i].pc = "write"
    /\ \E w \in WriteOutcomes(dstUp, srcEOF) :
          /\ toMig' = ConnWrite(toMig, senders[i].marshaledUpdate, w)
          /\ senders' = [senders EXCEPT ![i] =
                IF SendLoopDone(w.err)
                THEN [@ EXCEPT !.pc = "done",
                               !.delivered = @ + (IF w.n = "all" THEN 1 ELSE 0)]
                ELSE [@ EXCEPT !.pc = "sleep",
                               !.slept = ForAttempt(senders[i].attempt),
                               !.attempt = NextAttempt(@),
                               !.delivered = @ + (IF w.n = "all" THEN 1 ELSE 0)]]
    /\ UNCHANGED <<dstUp, srcEOF, chPc, chResp, handled, ackWrites,
                   exitCode, srcCloses>>
    /\ UNCHANGED offChannel

\* time.Sleep(duration) returns
SendWake(i) ==
    /\ i \in DOMAIN senders
    /\ senders[i].pc = "sleep"
    /\ senders' = [senders EXCEPT ![i].pc = "write"]
    /\ UNCHANGED <<toMig, dstUp, srcEOF, chPc, chResp, handled,
                   ackWrites, exitCode, srcCloses>>
    /\ UNCHANGED offChannel

(***************************************************************************)
(* CommunicationHandler.                                                   *)
(***************************************************************************)
\* the results of the injected handler: nil, or an error ("disk full")
HandlerErrors ==
    { NilError, ErrorsNew(<< 100, 105, 115, 107, 32, 102, 117, 108, 108 >>) }

\* a faulty variant of CHReadEOF: the function returns, and the process lives
CHReadEOFReturns ==
    /\ chPc = "read"
    /\ toMig = <<>>
    /\ srcBytes = <<>>
    /\ srcEOF
    /\ chPc' = "done"
    /\ srcCloses' = srcCloses + 1
    /\ UNCHANGED <<senders, toMig, dstUp, srcEOF, chResp, handled, ackWrites,
                   exitCode>>
    /\ UNCHANGED offChannel

\* src.Read(length) reports io.EOF: os.Exit(100); the deferred Close is not run
CHReadEOF ==
    /\ chPc = "read"
    /\ toMig = <<>>
    /\ srcBytes = <<>>
    /\ srcEOF
    /\ exitCode' = 100
    /\ chPc' = "exited"
    /\ UNCHANGED <<senders, toMig, dstUp, srcEOF, chResp, handled, ackWrites,
                   srcCloses>>
    /\ UNCHANGED offChannel

\* bytesRead < 4 without io.EOF: log and continue
CHShortPrefix ==
    /\ chPc = "read"
    /\ toMig # <<>>
    /\ toMig' \in AfterShort(toMig)
    /\ UNCHANGED <<senders, dstUp, srcEOF, chPc, chResp, handled, ackWrites,
                   exitCode, srcCloses>>
    /\ UNCHANGED offChannel

\* uint32(bytesRead) < updateLen: log and continue
CHShortBody ==
    /\ chPc = "read"
    /\ toMig # <<>>
    /\ toMig' \in AfterShort(toMig)
    /\ UNCHANGED <<senders, dstUp, srcEOF, chPc, chResp, handled, ackWrites,
                   exitCode, srcCloses>>
    /\ UNCHANGED offChannel

\* json.Unmarshal reports an error: log and continue
CHDecodeFail ==
    /\ chPc = "read"
    /\ toMig # <<>>
    /\ toMig[1].kind = "junk"
    /\ toMig' \in AfterJunk(toMig)
    /\ UNCHANGED <<senders, dstUp, srcEOF, chPc, chResp, handled, ackWrites,
                   exitCode, srcCloses>>
    /\ UNCHANGED offChannel

\* the rest of a pass once update is decoded: the handler is invoked, and for
\* an update that is no acknowledgment resp is made.  err is the result of
\* json.Unmarshal, which is nil here, and is what update.Failure is given
Dispatch(update) ==
    LET err == NilError
    IN  \E handlerErr \in HandlerErrors :
          /\ handled' = Append(handled, [update |-> update, err |-> handlerErr])
          /\ IF ~WantsAck(update.Type)
             THEN /\ chPc' = "read"
                  /\ UNCHANGED <<chResp, srcCloses>>
             ELSE IF handlerErr # NilError
             THEN IF FailurePanics(err)
                  THEN /\ chPc' = "panic"
                       /\ srcCloses' = srcCloses + 1
                       /\ UNCHANGED chResp
                  ELSE /\ chResp' = FailureResp(update, err)
                       /\ chPc' = "ack"
                       /\ UNCHANGED srcCloses
             ELSE /\ chResp' = SuccessResp(update)
                  /\ chPc' = "ack"
                  /\ UNCHANGED srcCloses

\* a pass that reads a whole frame and decodes it
CHHandle ==
    /\ chPc = "read"
    /\ toMig # <<>>
    /\ toMig[1].kind = "frame"
    /\ Dispatch(Unmarshal(toMig[1].body))
    /\ toMig' = Tail(toMig)
    /\ UNCHANGED <<senders, dstUp, srcEOF, ackWrites, exitCode>>
    /\ UNCHANGED offChannel

\* _, err = dst.Write(resp): an error is logged, the loop goes on
CHWriteAck ==
    /\ chPc = "ack"
    /\ \E ok \in BOOLEAN :
          /\ ackWrites' = Append(ackWrites,
                                  [req |-> Len(handled), resp |-> chResp, ok |-> ok])
    /\ chResp' = Junk
    /\ chPc' = "read"
    /\ UNCHANGED <<senders, toMig, dstUp, srcEOF, handled, exitCode, srcCloses>>
    /\ UNCHANGED offChannel

(***************************************************************************)
(* CommunicationHandler over a stream of bytes: each src.Read returns as   *)
(* many of the bytes asked for as the transport has at hand.               *)
(***************************************************************************)
\* a faulty variant of ByteDecodeFail: the update is handled as it is
ByteDecodeFailHandled ==
    /\ chPc = "body"
    /\ updateLen <= Len(srcBytes)
    /\ ~ParseJson(SubSeq(srcBytes, 1, updateLen)).ok
    /\ Dispatch(ZeroUpdate)
    /\ srcBytes' = Drop(srcBytes, updateLen)
    /\ UNCHANGED <<senders, toMig, dstUp, srcEOF, ackWrites, exitCode>>
    /\ updateLen' = 0
    /\ UNCHANGED inStream
    /\ UNCHANGED offBytes

\* src.Read(length) returns fewer than 4 bytes and no io.EOF: log and continue
\* (the bytes are in the buffer length, which is not read before a later
\* src.Read has filled it anew)
ByteShortPrefix ==
    /\ chPc = "read"
    /\ \E n \in 1..MinOf(3, Len(srcBytes)) : srcBytes' = Drop(srcBytes, n)
    /\ UNCHANGED <<inStream, updateLen>>
    /\ UNCHANGED chanVars
    /\ UNCHANGED offBytes

\* src.Read(length) returns 4 bytes: updateLen is their value
BytePrefix ==
    /\ chPc = "read"
    /\ Len(srcBytes) >= 4
    /\ updateLen' = Uint32(SubSeq(srcBytes, 1, 4))
    /\ srcBytes' = Drop(srcBytes, 4)
    /\ chPc' = "body"
    /\ UNCHANGED <<senders, toMig, dstUp, srcEOF, chResp, handled, ackWrites,
                   exitCode, srcCloses>>
    /\ UNCHANGED <<inStream>>
    /\ UNCHANGED offBytes

\* src.Read(buf) returns fewer than updateLen bytes (none when the stream has
\* ended): log and continue
ByteShortBody ==
    /\ chPc = "body"
    /\ \E n \in 0..MinOf(updateLen - 1, Len(srcBytes)) :
          /\ n = 0 => (srcBytes = <<>> /\ srcEOF)
          /\ srcBytes' = Drop(srcBytes, n)
    /\ chPc' = "read"
    /\ UNCHANGED <<senders, toMig, dstUp, srcEOF, chResp, handled, ackWrites,
                   exitCode, srcCloses>>
    /\ updateLen' = 0
    /\ UNCHANGED inStream
    /\ UNCHANGED offBytes

\* src.Read(buf) returns updateLen bytes and json.Unmarshal reports an error:
\* log and continue
ByteDecodeFail ==
    /\ chPc = "body"
    /\ updateLen <= Len(srcBytes)
    /\ ~ParseJson(SubSeq(srcBytes, 1, updateLen)).ok
    /\ srcBytes' = Drop(srcBytes, updateLen)
    /\ chPc' = "read"
    /\ UNCHANGED <<senders, toMig, dstUp, srcEOF, chResp, handled, ackWrites,
                   exitCode, srcCloses>>
    /\ updateLen' = 0
    /\ UNCHANGED inStream
    /\ UNCHANGED offBytes

\* src.Read(buf) returns updateLen bytes and they decode
ByteHandle ==
    /\ chPc = "body"
    /\ updateLen <= Len(srcBytes)
    /\ LET parsed == ParseJson(SubSeq(srcBytes, 1, updateLen))
       IN  /\ parsed.ok
           /\ Dispatch(Unmarshal(parsed.j))
    /\ srcBytes' = Drop(srcBytes, updateLen)
    /\ UNCHANGED <<senders, toMig, dstUp, srcEOF, ackWrites, exitCode>>
    /\ updateLen' = 0
    /\ UNCHANGED inStream
    /\ UNCHANGED offBytes

(***************************************************************************)
(* The control channel's environment: the state of Send's destination and  *)
(* the peer's end of the stream.                                           *)
(***************************************************************************)
DstFlip ==
    /\ ~srcEOF
    /\ dstUp' = ~dstUp
    /\ UNCHANGED <<senders, toMig, srcEOF, chPc, chResp, handled,
                   ackWrites, exitCode, srcCloses>>
    /\ UNCHANGED offChannel

SrcEnd ==
    /\ ~srcEOF
    /\ srcEOF' = TRUE
    /\ dstUp' = FALSE
    /\ UNCHANGED <<senders, toMig, chPc, chResp, handled, ackWrites,
                   exitCode, srcCloses>>
    /\ UNCHANGED offChannel

CtlNext ==
    \/ Send
    \/ \E i \in 1..MaxSends : SendWrite(i)
    \/ \E i \in 1..MaxSends : SendWake(i)
    \/ CHReadEOF
    \/ CHShortPrefix
    \/ CHShortBody
    \/ CHDecodeFail
    \/ CHHandle
    \/ CHWriteAck
    \/ DstFlip
    \/ SrcEnd

(***************************************************************************)
(* The specifications.                                                     *)
(***************************************************************************)
\* the relay before any session
RelayParked ==
    /\ RelayInit
    /\ \A i \in 1..MaxFrames : clientIn[i].Direction = 0

\* the control channel with no traffic
CtlParked ==
    /\ CtlInit
    /\ dstUp = TRUE
    /\ attemptCap = AttemptCap

\* one client session
RelayStart == RelayInit /\ CtlParked /\ CodecParked /\ BytesParked
RelaySpec == RelayStart /\ [][RelayNext]_vars

\* the goroutines of the session are scheduled, and a read in flight completes
FairRelaySpec ==
    /\ RelaySpec
    /\ WF_vars(RunListenForRequests)
    /\ WF_vars(RunListenForResponses)
    /\ WF_vars(ReqRead)
    /\ WF_vars(ReqPush)
    /\ WF_vars(RespStart)
    /\ WF_vars(RespRecvClosed)
    /\ WF_vars(RespWrite)

\* the control channel end to end: Send on one side, CommunicationHandler on
\* the other
Init ==
    CtlInit /\ attemptCap = AttemptCap /\ CodecParked /\ BytesParked /\ RelayParked
Next == CtlNext
Spec == Init /\ [][Next]_vars

\* Send alone: nothing reads what it writes
SendNext ==
    \/ Send
    \/ \E i \in 1..MaxSends : SendWrite(i)
    \/ \E i \in 1..MaxSends : SendWake(i)
    \/ DstFlip
    \/ SrcEnd

SendSpec == Init /\ [][SendNext]_vars

\* the goroutines of Send are scheduled and their sleeps end
FairSendSpec ==
    /\ SendSpec
    /\ \A i \in 1..MaxSends : WF_vars(SendWrite(i))
    /\ \A i \in 1..MaxSends : WF_vars(SendWake(i))

\* the retry loop of the first goroutine, followed over BackoffAttempts
\* failed writes
BackoffInit ==
    /\ CtlInit /\ attemptCap = BackoffAttempts
    /\ CodecParked /\ BytesParked /\ RelayParked
BackoffNext ==
    \/ Send
    \/ SendWrite(1)
    \/ SendWake(1)
    \/ DstFlip
    \/ SrcEnd

BackoffSpec == BackoffInit /\ [][BackoffNext]_vars

\* Serialize and the decoding alone
CodecStart == CodecInit /\ CtlParked /\ BytesParked /\ RelayParked
CodecSpec == CodecStart /\ [][CodecNext]_vars

\* the frames of the byte stream: a request with a payload, an
\* acknowledgment, and a frame whose body is no JSON text ("{{")
ByteUpdates ==
    { New(NewID(1), Start, Bytes(<< 116 >>)), New(NewID(2), Success, NilData) }
FramedUnits ==
    { [ok |-> TRUE, update |-> u, bytes |-> Wire(Serialize(u))] : u \in ByteUpdates }
    \cup { [ok |-> FALSE, update |-> ZeroUpdate,
            bytes |-> PutUint32(2) \o << 123, 123 >>] }

\* the bytes of a sequence of frames
RECURSIVE Flatten(_)
Flatten(units) ==
    IF units = <<>> THEN <<>> ELSE Head(units).bytes \o Flatten(Tail(units))

\* CommunicationHandler alone, on a stream the peer has written in full
FramingInit ==
    /\ inStream \in UNION { [1..n -> FramedUnits] : n \in 1..MaxMsgs }
    /\ srcBytes = Flatten(inStream)
    /\ updateLen = 0
    /\ CtlParked
    /\ CodecParked
    /\ RelayParked

FramingNext ==
    \/ CHReadEOF
    \/ ByteShortPrefix
    \/ BytePrefix
    \/ ByteShortBody
    \/ ByteDecodeFail
    \/ ByteHandle
    \/ CHWriteAck
    \/ SrcEnd

FramingSpec == FramingInit /\ [][FramingNext]_vars

(***************************************************************************)
(* The claims about CommunicationHandler's acknowledgments (Spec).         *)
(***************************************************************************)
\* the calls of dst.Write made for the k-th invocation of the handler
AckWritesFor(k) == { j \in DOMAIN ackWrites : ackWrites[j].req = k }

\* the pass for the k-th invocation has made resp and not yet written it
AckPending(k) == k = Len(handled) /\ chPc = "ack"

\* r is a well-framed message that decodes to an acknowledgment of update u
\* with type t and error text e
IsAckOf(r, u, t, e) ==
    /\ r.kind = "frame"
    /\ r.len = JsonLen(r.body)
    /\ LET update == Unmarshal(r.body)
       IN  update.ID = u.ID /\ update.Type = t /\ update.Error = e

\* the k-th invocation is answered by one message, of type t and error text e:
\* it is about to be written, or it is the one message written for it
AnsweredOnce(k, t, e) ==
    IF AckPending(k)
    THEN AckWritesFor(k) = {} /\ IsAckOf(chResp, handled[k].update, t, e)
    ELSE /\ Cardinality(AckWritesFor(k)) = 1
         /\ \A j \in AckWritesFor(k) :
               IsAckOf(ackWrites[j].resp, handled[k].update, t, e)

\* C1: a decodable message with id X that is no Success or Failure and whose
\* handler returns an error e is answered by exactly one message written to
\* the destination, a Failure with id X and Error e, and the loop keeps running.
C1_FailureAcknowledged ==
    \A k \in DOMAIN handled :
        (WantsAck(handled[k].update.Type) /\ handled[k].err # NilError)
        => (chPc # "panic" /\ AnsweredOnce(k, Failure, handled[k].err.text))

\* C2: a decodable message with id X that is no Success or Failure and whose
\* handler returns nil is answered by exactly one call of dst.Write, with a
\* Success that carries id X and an empty Error.
C2_SuccessAcknowledged ==
    \A k \in DOMAIN handled :
        (WantsAck(handled[k].update.Type) /\ handled[k].err = NilError)
        => AnsweredOnce(k, Success, <<>>)

C2_Witness ==
    \E k \in DOMAIN handled :
        /\ WantsAck(handled[k].update.Type)
        /\ handled[k].err = NilError
        /\ handled[k].update.ID = NewID(2)
        /\ AckWritesFor(k) # {}
        /\ chPc = "read"

\* C3: for an inbound Success or Failure nothing is written to the
\* destination, whatever the handler returns.
C3_NoAckOfAck ==
    \A k \in DOMAIN handled :
        (handled[k].update.Type \in {Success, Failure})
        => (AckWritesFor(k) = {} /\ ~AckPending(k))

C3_Witness ==
    /\ chPc = "read"
    /\ \E k, l \in DOMAIN handled :
          /\ handled[k].update.Type = Success
          /\ handled[l].update.Type = Failure
          /\ handled[l].err # NilError

(***************************************************************************)
(* The claim about acknowledgments end to end (Spec).                      *)
(***************************************************************************)
\* the acknowledgments with the given id that the destination accepted
AcksAtOrigin(id) ==
    { j \in DOMAIN ackWrites :
        /\ ackWrites[j].ok
        /\ LET update == Unmarshal(ackWrites[j].resp.body)
           IN  update.ID = id /\ update.Type \in {Success, Failure} }

\* the goroutine of Send has returned, the handler was invoked with the
\* update, and CommunicationHandler is back at the head of its loop
Settled(i) ==
    /\ senders[i].pc = "done"
    /\ chPc = "read"
    /\ \E k \in DOMAIN handled : handled[k].update.ID = senders[i].update.ID

RECURSIVE Copies(_, _)
Copies(stream, unit) ==
    IF stream = <<>> THEN 0
    ELSE (IF Head(stream) = unit THEN 1 ELSE 0) + Copies(Tail(stream), unit)

\* C10: the loop of Send has no maximum attempt count: a goroutine that has
\* not returned can always take its next step; it returns only after a write
\* that reported no error, writes nothing after that, and when the
\* destination from some time on accepts writes every message is delivered.
C10_RetriesUntilDelivered ==
    /\ [](\A i \in DOMAIN senders :
            /\ senders[i].delivered <= 1
            /\ senders[i].pc = "done" <=> senders[i].delivered = 1
            /\ senders[i].pc # "done" => ENABLED (SendWrite(i) \/ SendWake(i)))
    /\ [][\A i \in DOMAIN senders :
            senders[i].pc = "done" =>
                /\ senders'[i] = senders[i]
                /\ Copies(toMig', senders[i].marshaledUpdate)
                     = Copies(toMig, senders[i].marshaledUpdate)]_vars
    /\ (<>[]dstUp => <>[](\A i \in DOMAIN senders : senders[i].pc = "done"))

C10_Witness ==
    \E i \in DOMAIN senders :
        /\ senders[i].pc = "done"
        /\ senders[i].attempt = attemptCap
        /\ senders[i].delivered = 1
        /\ Copies(toMig, senders[i].marshaledUpdate) = 1

(***************************************************************************)
(* The claims about the relay (RelaySpec, FairRelaySpec).                  *)
(***************************************************************************)
IsFromClient(f) == f.Direction = 0

\* C5: the frames pushed onto the request channel are the frames read with
\* Direction 0, in the order they were read (the last of them may still be
\* held for the push); a frame with another direction is not pushed and does
\* not end the loop, which ends on an error of the read only.
C5_DirectionFiltering ==
    /\ SelectSeq(readLog, IsFromClient)
         = (IF reqPc = "push" THEN Append(pushed, frame) ELSE pushed)
    /\ reqPc = "done" => reqErr # "nil"

C5_Witness ==
    /\ Len(pushed) >= 2
    /\ Len(readLog) > Len(pushed)
    /\ ~IsFromClient(readLog[1])
    /\ reqPc = "read"

\* C6: once the context is cancelled no read from and no write to the client
\* connection is started.
C6_NoIOAfterCancel ==
    [][ctxDone => (connReads' = connReads /\ connWrites' = connWrites)]_vars

\* both loops have stopped, or the process has
LoopsStopped == ~RelayAlive \/ (reqPc = "done" /\ respPc = "done")

\* C7: after the context is cancelled both loops eventually terminate.
C7_LoopsTerminate == ctxDone ~> LoopsStopped

\* C8: on every path by which the request loop terminates the request
\* channel is closed exactly once, and nothing is pushed after the close.
C8_ClosedExactlyOnce ==
    /\ [](reqChanCloses <= 1 /\ (reqPc = "done" <=> reqChanCloses = 1))
    /\ [][reqChanCloses >= 1 => pushed' = pushed]_vars

C8_Witness ==
    /\ reqPc = "done"
    /\ reqErr = "ShutdownErr"
    /\ reqChanCloses = 1
    /\ pushed # <<>>

\* C9: once both loops have stopped the client connection has been closed
\* exactly once.
C9_ConnectionClosedOnce ==
    (reqPc = "done" /\ respPc = "done") => connCloses = 1

(***************************************************************************)
(* The claim about the delays of Send's loop (BackoffSpec).                *)
(***************************************************************************)
\* C11 as stated: the first write is made with no delay, and the delay slept
\* after k failed attempts, before attempt k+1, is min(Max, Min * Factor^k).
C11_DelayAsStated ==
    \A i \in DOMAIN senders :
        LET k == senders[i].attempt
        IN  /\ k = 0 => senders[i].slept = 0
            /\ (k >= 1 /\ k < attemptCap) =>
                  senders[i].slept
                    = MinOf(BackoffMax, BackoffMin * Pow(BackoffFactor, k))

\* C11 as amended: the first write is made with no delay, and the delay slept
\* after k >= 1 failed attempts, before attempt k+1, is
\* min(Max, Min * Factor^(k-1)): Min after the first failure.
C11_DelayFromMin ==
    \A i \in DOMAIN senders :
        LET k == senders[i].attempt
        IN  /\ k = 0 => (senders[i].slept = 0 /\ senders[i].pc # "sleep")
            /\ (k >= 1 /\ k < attemptCap) =>
                  senders[i].slept
                    = MinOf(BackoffMax, BackoffMin * Pow(BackoffFactor, k - 1))

C11_Witness ==
    \E i \in DOMAIN senders :
        /\ senders[i].attempt = attemptCap - 1
        /\ senders[i].slept = BackoffMax
        /\ senders[i].pc = "write"

(***************************************************************************)
(* The claim about the wire format (CodecSpec).                            *)
(***************************************************************************)
\* the frame is a 4-byte big-endian length, equal to the number of the bytes
\* that follow it, and those bytes
WellFramed(bytes) ==
    /\ Len(bytes) >= 4
    /\ SubSeq(bytes, 1, 4) = PutUint32(Len(bytes) - 4)
    /\ Uint32(SubSeq(bytes, 1, 4)) = Len(bytes) - 4

\* C12 as stated: for every Update m, Serialize(m) is a 4-byte big-endian
\* length equal to the number of body bytes followed by the body, and
\* decoding the body as CommunicationHandler does gives a message equal to m
\* in ID, Type, Data and Error.
C12_RoundTrip ==
    /\ withLen # <<>> => WellFramed(withLen)
    /\ decodeErr # "unset" => (decodeErr = "nil" /\ decodedUpdate = codecU)

\* the string with every byte that is no valid UTF-8 replaced by U+FFFD
RECURSIVE ToValidUTF8(_)
ToValidUTF8(s) ==
    IF s = <<>> THEN <<>>
    ELSE IF s[1] < 128 THEN << s[1] >> \o ToValidUTF8(Tail(s))
    ELSE IF Len(s) >= 2 /\ s[1] \in 194..223 /\ s[2] \in 128..191
    THEN << s[1], s[2] >> \o ToValidUTF8(Tail(Tail(s)))
    ELSE << 239, 191, 189 >> \o ToValidUTF8(Tail(s))

\* C12 as amended: Serialize(m) is a 4-byte big-endian length equal to the
\* number of body bytes followed by the body; decoding it reports no error
\* and gives m's Type and Data, and m's ID and Error with every byte that is
\* no valid UTF-8 replaced by U+FFFD: a message equal to m in all four fields
\* when ID and Error are valid UTF-8.
C12_RoundTripOfText ==
    /\ withLen # <<>> => WellFramed(withLen)
    /\ decodeErr # "unset" =>
          /\ decodeErr = "nil"
          /\ decodedUpdate = [codecU EXCEPT !.ID = ToValidUTF8(@),
                                            !.Error = ToValidUTF8(@)]
          /\ (ToValidUTF8(codecU.ID) = codecU.ID
               /\ ToValidUTF8(codecU.Error) = codecU.Error)
             => decodedUpdate = codecU

C12_Witness ==
    /\ decodeErr = "nil"
    /\ codecU.ID = << 34, 92 >>
    /\ codecU.Type = Failure
    /\ codecU.Data = Bytes(<< 0, 255 >>)
    /\ codecU.Error = << 195, 169 >>
    /\ decodedUpdate = codecU
    /\ Len(withLen) = 4 + 36 + 4 + 1 + 6 + 2

(***************************************************************************)
(* The claims about CommunicationHandler's reads (FramingSpec).            *)
(***************************************************************************)
\* the read of the length is under way and reports io.EOF
PrefixReadEOF == chPc = "read" /\ srcBytes = <<>> /\ srcEOF

\* a step CommunicationHandler can take
HandlerStep ==
    \/ ByteShortPrefix
    \/ BytePrefix
    \/ ByteShortBody
    \/ ByteDecodeFail
    \/ ByteHandle
    \/ CHWriteAck

\* C13: when the read of the 4-byte length reports the end of the stream the
\* process exits with status 100 (and with no other status at any other
\* time), and after that read the handler is not invoked and nothing is
\* written to the destination.
C13_ExitOnEOF ==
    /\ [](exitCode \in {0, 100})
    /\ [](exitCode = 100 <=> chPc = "exited")
    /\ [](exitCode = 100 => ~ENABLED HandlerStep)
    /\ [][PrefixReadEOF => (exitCode' = 100 /\ chPc' = "exited")]_vars
    /\ [][exitCode' # exitCode => PrefixReadEOF]_vars
    /\ [][(PrefixReadEOF \/ exitCode = 100)
            => (handled' = handled /\ ackWrites' = ackWrites)]_vars

C13_Witness ==
    /\ exitCode = 100
    /\ Len(handled) = 2
    /\ ackWrites # <<>>
    /\ srcCloses = 0

\* the number of bytes a step takes from the stream
Taken == Len(srcBytes) - Len(srcBytes')

\* a step of the handler (not of the peer, which ends the stream) that is a
\* short read of the length without io.EOF, a read of the body that returns
\* fewer bytes than updateLen, or a read of a whole body that does not decode
SkippedPass ==
    /\ srcEOF' = srcEOF
    /\ \/ chPc = "read" /\ Taken \in 1..3
       \/ chPc = "body" /\ Taken < updateLen
       \/ /\ chPc = "body"
          /\ Taken = updateLen
          /\ ~ParseJson(SubSeq(srcBytes, 1, updateLen)).ok

\* C17: a pass that hits a short read of the length without io.EOF, a read of
\* the body shorter than the declared length, or a body that fails to decode
\* invokes the handler zero times and writes nothing to the destination, and
\* the loop is at the head of its next pass, not terminated.
C17_SkippedPasses ==
    [][SkippedPass =>
          /\ handled' = handled
          /\ ackWrites' = ackWrites
          /\ chPc' = "read"
          /\ exitCode' = 0
          /\ srcCloses' = 0]_vars

C17_Witness ==
    /\ Len(inStream) = 2
    /\ ~inStream[1].ok
    /\ inStream[2].ok
    /\ chPc = "read"
    /\ srcBytes = <<>>
    /\ Len(handled) = 1
    /\ handled[1].update = inStream[2].update

\* C20: for a stream that is a concatenation of well-formed serialized
\* messages, however the reads split its bytes, the handler is invoked once
\* per message, in the order of the stream, with the message as sent: the
\* invocations are the first messages of the stream, and all of them once
\* the stream is read to its end.
C20_OncePerMessage ==
    (\A i \in DOMAIN inStream : inStream[i].ok) =>
        /\ Len(handled) <= Len(inStream)
        /\ \A k \in DOMAIN handled : handled[k].update = inStream[k].update
        /\ (srcBytes = <<>> /\ chPc = "read") => Len(handled) = Len(inStream)

(***************************************************************************)
(* The claims about failures and payloads on the client connection         *)
(* (RelaySpec).                                                            *)
(***************************************************************************)
\* the write the response loop made last was refused by the connection
LastWriteFailed == Len(written) < Len(connWrites)

\* C14: every failed read or write on the client connection cancels the
\* session: the request loop has cancelled the context when it stops on an
\* error of the read other than the cancellation itself (end of stream
\* included), and the context is cancelled when the response loop has stopped
\* on a failed write.
C14_IOFailureCancels ==
    /\ (reqPc = "done" /\ reqErr \notin {"nil", "ShutdownErr"}) => ctxDone
    /\ (respPc = "done" /\ LastWriteFailed) => ctxDone

\* C15: every payload received from the response channel, of any length, is
\* written to the client connection as it is and in the order received: the
\* loop survives every payload, hands each payload it received to the
\* connection once (none twice: a failed write is not retried), the
\* connection has accepted all of them but a last one it refused, and the
\* loop has stopped only on the closed channel or on that refused write.
C15_PayloadsWrittenVerbatim ==
    /\ respPc # "panic"
    /\ Len(connWrites) + (IF respPc = "write" THEN 1 ELSE 0) = respSent
    /\ \A k \in DOMAIN written : written[k] = connWrites[k]
    /\ LastWriteFailed => (respPc = "done" /\ Len(connWrites) = Len(written) + 1)
    /\ respPc = "done" => (respChanClosed \/ LastWriteFailed)

\* C19: the counter of the wait group, once run has added both loops to it,
\* is zero only when the goroutines of both loops have terminated, so that a
\* waiter does not resume while the response loop can still write to the
\* client connection.
C19_WaitGroupTracksBothLoops ==
    (runPc = "done" /\ waitGroup = 0)
        => (reqPc = "done" /\ respPc \in {"done", "panic"})

(***************************************************************************)
(* The claims about Send's writes (SendSpec).                              *)
(***************************************************************************)
\* the step is a return of dst.Write in goroutine i
WriteReturns(i) == senders[i].pc = "write" /\ senders'[i].pc # "write"

\* the write of goroutine i has put its whole message on the stream
WholeMessageWritten(i) == toMig' = Append(toMig, senders[i].marshaledUpdate)

\* C16: a write of Send that transfers fewer bytes than the whole serialized
\* message counts as a failed attempt: the goroutine backs off, and it writes
\* the whole serialized message again (what it hands to dst.Write is always
\* the serialization of its update, from the first byte); it returns only
\* after a write that put the whole message on the stream.
C16_ShortWriteRetried ==
    /\ [](\A i \in DOMAIN senders :
            /\ senders[i].marshaledUpdate = Serialize(senders[i].update)
            /\ senders[i].pc = "sleep" => ENABLED SendWake(i))
    /\ [][\A i \in DOMAIN senders :
            WriteReturns(i) =>
                /\ senders'[i].pc = "done" <=> WholeMessageWritten(i)
                /\ ~WholeMessageWritten(i) =>
                      /\ senders'[i].pc = "sleep"
                      /\ senders'[i].slept >= BackoffMin
                      /\ senders'[i].marshaledUpdate = senders[i].marshaledUpdate]_vars

C16_Witness ==
    \E i \in DOMAIN senders :
        /\ senders[i].pc = "done"
        /\ senders[i].attempt >= 1
        /\ toMig = << Junk, senders[i].marshaledUpdate >>

\* goroutine i is at dst.Write(marshaledUpdate): it makes the call with
\* nothing that orders it after the call of another goroutine
AtWrite(i) == senders[i].pc = "write"

\* C18: no two threads write to the same connection at the same time: on the
\* client connection the response loop is the only writer, and on the
\* destination of the control channel at most one goroutine (a retry loop of
\* Send, or CommunicationHandler with its acknowledgment) is at a write.
C18_NoConcurrentWrites ==
    Cardinality({ i \in DOMAIN senders : AtWrite(i) })
      + (IF chPc = "ack" THEN 1 ELSE 0) <= 1

=============================================================================
